---- MODULE Spec2Model ----
(***************************************************************************)
(* mnemonic-16bit: binary_to_phrase / dict_index / phrase_to_binary        *)
(* (src/src/lib.rs).  Strings are sequences of one-character strings, so   *)
(* that formatting, splitting, slicing and parsing are computed character  *)
(* by character as the code does.                                          *)
(***************************************************************************)
EXTENDS Integers, Sequences, FiniteSets, TLC

\* caller           the test that makes the calls
\* overflow_checks  whether the build panics on integer overflow (debug) or wraps
\* data, i, phrase  binary_to_phrase: its argument, loop index and phrase so far;
\*                  phrase is then the argument of phrase_to_binary
\* words            phrase_to_binary: the words the loop has still to examine
\* finalized, result  phrase_to_binary: its locals
\* outcome          "none" while running, "Ok", the kind of Err, or "panic"
\* pc               the function or loop the control is in
VARIABLES caller, overflow_checks, data, i, phrase, pc, words, finalized, result, outcome

vars == <<caller, overflow_checks, data, i, phrase, pc, words, finalized, result, outcome>>

(***************************************************************************)
(* Bounds of the model.                                                    *)
(***************************************************************************)
\* longest byte sequence handed to binary_to_phrase
MaxDataLen == 3
\* most tokens in a phrase handed directly to phrase_to_binary
MaxTokens == 2

(***************************************************************************)
(* Characters.                                                             *)
(***************************************************************************)
DigitChars == <<"0", "1", "2", "3", "4", "5", "6", "7", "8", "9">>

\* char::is_ascii_digit
is_ascii_digit(c) == \E d \in 1..10 : DigitChars[d] = c

\* value of an ASCII digit, as str::parse reads it
DigitVal(c) == (CHOOSE d \in 1..10 : DigitChars[d] = c) - 1

\* FormatNum as format!("{:02}", num) would write it
FormatNumPadded(n) == <<DigitChars[(n \div 10) + 1], DigitChars[(n % 10) + 1]>>

\* format!("{}", num) for an unsigned number: decimal, no padding
RECURSIVE FormatNum(_)
FormatNum(n) ==
    IF n < 10 THEN <<DigitChars[n + 1]>>
    ELSE FormatNum(n \div 10) \o <<DigitChars[(n % 10) + 1]>>

\* str::parse::<u16>() of a non-empty string of ASCII digits
RECURSIVE ParseNum(_)
ParseNum(s) ==
    IF s = <<>> THEN 0
    ELSE ParseNum(SubSeq(s, 1, Len(s) - 1)) * 10 + DigitVal(s[Len(s)])

\* u16 arithmetic: the value the build keeps when overflow checks are off
U16(n) == n % 65536

\* `as u8`
U8(n) == n % 256

(***************************************************************************)
(* The seed15 dictionary: 1024 distinct lower-case words, distinct in      *)
(* their first DICTIONARY_UNIQUE_PREFIX characters.  Word k is its         *)
(* three-letter prefix, which spells k, and a tail of 0 to 2 letters.      *)
(***************************************************************************)
DICTIONARY_LEN == 1024

DICTIONARY_UNIQUE_PREFIX == 3

PrefixLetters == <<"a", "b", "c", "d", "e", "f", "g", "h",
                   "i", "j", "k", "l", "m", "n", "o", "p">>

DictWord(k) ==
    <<PrefixLetters[(k \div 64) + 1],
      PrefixLetters[((k \div 8) % 8) + 1],
      PrefixLetters[(k % 8) + 1]>>
    \o SubSeq(<<"y", "z">>, 1, 2 - (k % 3))

\* indexed from 0 as the Rust array is
DICTIONARY == [k \in 0..(DICTIONARY_LEN - 1) |-> DictWord(k)]

\* &s[..DICTIONARY_UNIQUE_PREFIX]
Prefix(s) == SubSeq(s, 1, DICTIONARY_UNIQUE_PREFIX)

\* DICTIONARY[k][..DICTIONARY_UNIQUE_PREFIX], for every k
DictionaryPrefix == [k \in 0..(DICTIONARY_LEN - 1) |-> Prefix(DICTIONARY[k])]

(***************************************************************************)
(* binary_to_phrase                                                        *)
(***************************************************************************)
\* WordIndex without the two high bits of the second byte
WordIndexNoLowByte(b0, b1) == U16(b0 * 4)

\* the dictionary offset of a byte pair
WordIndex(b0, b1) == U16(U16(b0 * 4) + (b1 \div 64))

\* Num keeping seven bits of the second byte
NumSevenBits(b1) == b1 % 128

\* the accompanying number of a byte pair
Num(b1) == b1 % 64

\* phrase += " " unless the phrase is empty; phrase += word; phrase += suffix
Compose(p, word, suffix) ==
    (IF Len(p) # 0 THEN p \o <<" ">> ELSE p) \o word \o suffix

\* one iteration of the while loop, reading data[i] and data[i+1] (0-based i)
EncodePairBody(p, d, k) ==
    Compose(p, DICTIONARY[WordIndex(d[k + 1], d[k + 2])], FormatNum(Num(d[k + 2])))

\* the final word of an odd-length input
EncodeFinalBody(p, d, k) ==
    Compose(p, DICTIONARY[d[k + 1]], <<"6", "4">>)

RECURSIVE EncodeFrom(_, _, _)
EncodeFrom(p, d, k) ==
    IF k + 1 < Len(d) THEN EncodeFrom(EncodePairBody(p, d, k), d, k + 2)
    ELSE IF Len(d) % 2 = 1 THEN EncodeFinalBody(p, d, k)
    ELSE p

\* the whole function
binary_to_phrase(d) == IF Len(d) = 0 THEN <<>> ELSE EncodeFrom(<<>>, d, 0)

(***************************************************************************)
(* dict_index                                                              *)
(***************************************************************************)
Found(k) == [status |-> "Ok", index |-> k]

NotFound == [status |-> "WordNotFound", index |-> 0]

\* slicing a str past its end aborts the thread
SlicePanic == [status |-> "panic", index |-> 0]

\* the loop over 0..DICTIONARY.len(), tabulated: for every prefix some word has,
\* the first k whose word has it
FirstIndex ==
    [w \in {DictionaryPrefix[k] : k \in 0..(DICTIONARY_LEN - 1)} |->
        CHOOSE k \in 0..(DICTIONARY_LEN - 1) :
            /\ DictionaryPrefix[k] = w
            /\ \A j \in 0..(k - 1) : DictionaryPrefix[j] # w]

\* the loop over 0..DICTIONARY.len(): the first k whose prefix equals w
FirstMatch(w) ==
    IF w \in DOMAIN FirstIndex THEN Found(U16(FirstIndex[w])) ELSE NotFound

\* dict_index comparing the letters of the word with whole dictionary words
dict_index_exact(word) ==
    LET letters == SelectSeq(word, LAMBDA c : ~is_ascii_digit(c))
        matches == {k \in 0..(DICTIONARY_LEN - 1) : DICTIONARY[k] = letters}
    IN  IF Len(word) < DICTIONARY_UNIQUE_PREFIX THEN SlicePanic
        ELSE IF matches = {} THEN NotFound
        ELSE Found(U16(CHOOSE k \in matches : \A j \in matches : k <= j))

dict_index(word) ==
    IF Len(word) < DICTIONARY_UNIQUE_PREFIX THEN SlicePanic
    ELSE FirstMatch(Prefix(word))

(***************************************************************************)
(* phrase_to_binary                                                        *)
(***************************************************************************)
\* phrase.split(" "): the pieces between single spaces, empty pieces kept
RECURSIVE SplitFrom(_, _, _)
SplitFrom(p, k, cur) ==
    IF k > Len(p) THEN <<cur>>
    ELSE IF p[k] = " " THEN <<cur>> \o SplitFrom(p, k + 1, <<>>)
    ELSE SplitFrom(p, k + 1, Append(cur, p[k]))

Split(p) == SplitFrom(p, 1, <<>>)

\* ScanChars with the length test off by one
RECURSIVE ScanCharsThreeDigits(_, _, _)
ScanCharsThreeDigits(word, k, digits) ==
    IF k > Len(word) THEN [err |-> "none", digits |-> digits]
    ELSE IF digits > 0 /\ ~is_ascii_digit(word[k])
         THEN [err |-> "SuffixNotTrailing", digits |-> digits]
    ELSE IF digits > 2
         THEN [err |-> "SuffixTooLong", digits |-> digits]
    ELSE ScanCharsThreeDigits(word, k + 1,
                              IF is_ascii_digit(word[k]) THEN digits + 1 ELSE digits)

\* the digit-counting loop over word.chars(), from character k on
RECURSIVE ScanChars(_, _, _)
ScanChars(word, k, digits) ==
    IF k > Len(word) THEN [err |-> "none", digits |-> digits]
    ELSE IF digits > 0 /\ ~is_ascii_digit(word[k])
         THEN [err |-> "SuffixNotTrailing", digits |-> digits]
    ELSE IF digits > 1
         THEN [err |-> "SuffixTooLong", digits |-> digits]
    ELSE ScanChars(word, k + 1, IF is_ascii_digit(word[k]) THEN digits + 1 ELSE digits)

\* &word[word.len()-1..] or &word[word.len()-2..]
NumericalSuffix(word, digits) ==
    IF digits = 1 THEN SubSeq(word, Len(word), Len(word))
    ELSE SubSeq(word, Len(word) - 1, Len(word))

\* TerminalIndexOk with the bound off by one
TerminalIndexOkOffByOne(word_index) == ~(word_index > 256)

\* the largest index a token with suffix 64 may resolve to
TerminalIndexOk(word_index) == ~(word_index > 255)

\* SuffixValueOk with the bound off by one
SuffixValueOkOffByOne(numerical_bits) == ~(numerical_bits > 65)

\* SuffixValueOk letting every two-digit number through
SuffixValueOkTwoDigits(numerical_bits) == ~(numerical_bits > 99)

\* the largest numeric suffix the two-byte branch lets through
SuffixValueOk(numerical_bits) == ~(numerical_bits > 64)

\* the loop leaves with an error (or aborts); no partial result is returned
Stop(kind, fin) == [status |-> kind, finalized |-> fin, result |-> <<>>]

Continue(fin, res) == [status |-> "run", finalized |-> fin, result |-> res]

\* TerminalBranch without `finalized = true`
TerminalBranchNotFinal(word, res) ==
    LET r == dict_index(word) IN
    IF r.status # "Ok" THEN Stop(r.status, FALSE)
    ELSE IF ~TerminalIndexOk(r.index) THEN Stop("TerminalWordOutOfRange", FALSE)
    ELSE Continue(FALSE, Append(res, U8(r.index)))

\* the branch for numerical_suffix == "64"
TerminalBranch(word, res) ==
    LET r == dict_index(word) IN
    IF r.status # "Ok" THEN Stop(r.status, TRUE)
    ELSE IF ~TerminalIndexOk(r.index) THEN Stop("TerminalWordOutOfRange", TRUE)
    ELSE Continue(TRUE, Append(res, U8(r.index)))

\* the branch for every other suffix; oc: the build checks integer overflow
RegularBranch(word, numerical_suffix, res, oc) ==
    LET r == dict_index(word)
        numerical_bits == ParseNum(numerical_suffix)
        bits == U16(r.index * 64)
        sum == U16(bits + numerical_bits)
    IN
    IF r.status # "Ok" THEN Stop(r.status, FALSE)
    ELSE IF oc /\ r.index * 64 > 65535 THEN Stop("panic", FALSE)
    ELSE IF ~SuffixValueOk(numerical_bits) THEN Stop("SuffixOutOfRange", FALSE)
    ELSE IF oc /\ bits + numerical_bits > 65535 THEN Stop("panic", FALSE)
    ELSE Continue(FALSE, res \o <<U8(sum \div 256), U8(sum % 256)>>)

\* one iteration of `for word in words`
ProcessWord(word, fin, res, oc) ==
    IF fin THEN Stop("MisplacedTerminal", fin)
    ELSE
    LET scan == ScanChars(word, 1, 0) IN
    IF scan.err # "none" THEN Stop(scan.err, fin)
    ELSE IF scan.digits = 0 THEN Stop("MissingSuffix", fin)
    ELSE
    LET numerical_suffix == NumericalSuffix(word, scan.digits) IN
    IF numerical_suffix = <<"6", "4">> THEN TerminalBranch(word, res)
    ELSE RegularBranch(word, numerical_suffix, res, oc)

RECURSIVE DecodeLoop(_, _, _, _)
DecodeLoop(ws, fin, res, oc) ==
    IF ws = <<>> THEN [status |-> "Ok", result |-> res]
    ELSE LET s == ProcessWord(Head(ws), fin, res, oc) IN
         IF s.status # "run" THEN [status |-> s.status, result |-> <<>>]
         ELSE DecodeLoop(Tail(ws), s.finalized, s.result, oc)

\* the whole function
phrase_to_binary(p, oc) ==
    IF p = <<>> THEN [status |-> "Ok", result |-> <<>>]
    ELSE DecodeLoop(Split(p), FALSE, <<>>, oc)

(***************************************************************************)
(* Inputs.                                                                 *)
(***************************************************************************)
\* byte values at the edges of the 2-bit / 6-bit split of the low byte
SampleBytes == {0, 1, 63, 64, 65, 127, 128, 191, 192, 255}

ByteSeqs == UNION {[1..n -> SampleBytes] : n \in 0..MaxDataLen}

\* dictionary indices at the edges of the terminal range and of the dictionary
SampleIndices == {0, 2, 255, 256, 1023}

\* a word as written in full, truncated, with letters added, with a symbol added
WordForms(k) ==
    {DICTIONARY[k], Prefix(DICTIONARY[k]), DICTIONARY[k] \o <<"z">>,
     Prefix(DICTIONARY[k]) \o <<"-">>}

\* words that are empty, too short, or not in the dictionary
BadWords == {<<>>, <<"a">>, <<"a", "a">>, <<"z", "z", "z", "z">>}

Words == (UNION {WordForms(k) : k \in SampleIndices}) \cup BadWords

Suffixes ==
    {<<>>, <<"0">>, <<"7">>, <<"0", "0">>, <<"0", "7">>, <<"6", "3">>,
     <<"6", "4">>, <<"6", "5">>, <<"9", "9">>, <<"0", "6", "4">>,
     <<"6", "4", "0">>, <<"6", "z">>, <<"6", "z", "4">>, <<"6", "-">>}

Tokens == {w \o s : w \in Words, s \in Suffixes}

\* the tokens that may stand around the token under test
ContextTokens ==
    {DICTIONARY[0] \o <<"0">>, DICTIONARY[255] \o <<"6", "4">>,
     Prefix(DICTIONARY[1023]) \o <<"6", "3">>}

RECURSIVE SeqsUpTo(_, _)
SeqsUpTo(S, n) ==
    IF n = 0 THEN {<<>>}
    ELSE LET shorter == SeqsUpTo(S, n - 1) IN
         shorter \cup {Append(q, x) : q \in shorter, x \in S}

\* tokens joined by single spaces
RECURSIVE Join(_)
Join(ts) ==
    IF ts = <<>> THEN <<>>
    ELSE IF Len(ts) = 1 THEN ts[1]
    ELSE ts[1] \o <<" ">> \o Join(Tail(ts))

TokenLists ==
    {pre \o <<t>> \o post :
        pre \in SeqsUpTo(ContextTokens, MaxTokens - 1),
        post \in SeqsUpTo(ContextTokens, MaxTokens - 1),
        t \in Tokens}

GivenPhrases ==
    {<<>>} \cup {Join(ts) : ts \in {l \in TokenLists : Len(l) <= MaxTokens}}

(***************************************************************************)
(* The state machine: a caller hands bytes to binary_to_phrase and the     *)
(* phrase to phrase_to_binary (tests::check_seed_phrases), or hands a      *)
(* phrase of its own to phrase_to_binary (tests::check_bad_phrases).       *)
(***************************************************************************)
Init ==
    /\ overflow_checks \in BOOLEAN
    /\ \/ /\ caller = "check_seed_phrases"
          /\ data \in ByteSeqs
          /\ phrase = <<>>
          /\ pc = "binary_to_phrase"
       \/ /\ caller = "check_bad_phrases"
          /\ data = <<>>
          /\ phrase \in GivenPhrases
          /\ pc = "phrase_to_binary"
    /\ i = 0
    /\ words = <<>>
    /\ finalized = FALSE
    /\ result = <<>>
    /\ outcome = "none"

\* binary_to_phrase: no data means no mnemonic
EncodeEmpty ==
    /\ pc = "binary_to_phrase"
    /\ Len(data) = 0
    /\ pc' = "phrase_to_binary"
    /\ UNCHANGED <<caller, overflow_checks, data, i, phrase, words, finalized, result, outcome>>

\* binary_to_phrase: one iteration of `while i+1 < data.len()`
EncodePair ==
    /\ pc = "binary_to_phrase"
    /\ Len(data) # 0
    /\ i + 1 < Len(data)
    /\ phrase' = EncodePairBody(phrase, data, i)
    /\ i' = i + 2
    /\ UNCHANGED <<caller, overflow_checks, data, pc, words, finalized, result, outcome>>

\* binary_to_phrase: the loop is over; the final word, and the return
EncodeFinal ==
    /\ pc = "binary_to_phrase"
    /\ Len(data) # 0
    /\ ~(i + 1 < Len(data))
    /\ phrase' = IF Len(data) % 2 = 1 THEN EncodeFinalBody(phrase, data, i) ELSE phrase
    /\ pc' = "phrase_to_binary"
    /\ UNCHANGED <<caller, overflow_checks, data, i, words, finalized, result, outcome>>

\* phrase_to_binary: the empty phrase
DecodeEmpty ==
    /\ pc = "phrase_to_binary"
    /\ phrase = <<>>
    /\ result' = <<>>
    /\ outcome' = "Ok"
    /\ pc' = "done"
    /\ UNCHANGED <<caller, overflow_checks, data, i, phrase, words, finalized>>

\* phrase_to_binary: the locals before the loop
DecodeSplit ==
    /\ pc = "phrase_to_binary"
    /\ phrase # <<>>
    /\ finalized' = FALSE
    /\ result' = <<>>
    /\ words' = Split(phrase)
    /\ pc' = "for_word"
    /\ UNCHANGED <<caller, overflow_checks, data, i, phrase, outcome>>

\* phrase_to_binary: one iteration of the loop, on the next word
DecodeWord ==
    /\ pc = "for_word"
    /\ words # <<>>
    /\ LET s == ProcessWord(Head(words), finalized, result, overflow_checks) IN
       /\ finalized' = s.finalized
       /\ result' = s.result
       /\ IF s.status = "run"
          THEN /\ words' = Tail(words)
               /\ UNCHANGED <<pc, outcome>>
          ELSE /\ outcome' = s.status
               /\ pc' = "done"
               /\ UNCHANGED words
    /\ UNCHANGED <<caller, overflow_checks, data, i, phrase>>

\* phrase_to_binary: Ok(result)
DecodeReturn ==
    /\ pc = "for_word"
    /\ words = <<>>
    /\ outcome' = "Ok"
    /\ pc' = "done"
    /\ UNCHANGED <<caller, overflow_checks, data, i, phrase, words, finalized, result>>

Next ==
    \/ EncodeEmpty
    \/ EncodePair
    \/ EncodeFinal
    \/ DecodeEmpty
    \/ DecodeSplit
    \/ DecodeWord
    \/ DecodeReturn

Spec == Init /\ [][Next]_vars

TypeOK ==
    /\ pc \in {"binary_to_phrase", "phrase_to_binary", "for_word", "done"}
    /\ outcome \in {"none", "Ok", "panic", "MisplacedTerminal", "SuffixNotTrailing",
                    "SuffixTooLong", "MissingSuffix", "WordNotFound",
                    "TerminalWordOutOfRange", "SuffixOutOfRange"}
    /\ \A k \in 1..Len(result) : result[k] \in 0..255

(***************************************************************************)
(* Vocabulary of the properties, defined on the text of a token and on the *)
(* dictionary, independently of the decoder.                               *)
(***************************************************************************)
Letters ==
    {"a", "b", "c", "d", "e", "f", "g", "h", "i", "j", "k", "l", "m",
     "n", "o", "p", "q", "r", "s", "t", "u", "v", "w", "x", "y", "z"}

DecimalDigits == {"0", "1", "2", "3", "4", "5", "6", "7", "8", "9"}

\* the number of digits at the end of a token
RECURSIVE SuffixLen(_)
SuffixLen(tok) ==
    IF tok = <<>> \/ tok[Len(tok)] \notin DecimalDigits THEN 0
    ELSE 1 + SuffixLen(SubSeq(tok, 1, Len(tok) - 1))

\* the token without the digits at its end
WordPart(tok) == SubSeq(tok, 1, Len(tok) - SuffixLen(tok))

\* the digits at the end of a token
SuffixPart(tok) == SubSeq(tok, Len(tok) - SuffixLen(tok) + 1, Len(tok))

DigitValue(c) ==
    CASE c = "0" -> 0 [] c = "1" -> 1 [] c = "2" -> 2 [] c = "3" -> 3 [] c = "4" -> 4
      [] c = "5" -> 5 [] c = "6" -> 6 [] c = "7" -> 7 [] c = "8" -> 8 [] c = "9" -> 9

\* the number a string of decimal digits denotes
RECURSIVE Denotes(_)
Denotes(ds) ==
    IF ds = <<>> THEN 0
    ELSE 10 * Denotes(SubSeq(ds, 1, Len(ds) - 1)) + DigitValue(ds[Len(ds)])

Sixty4 == <<"6", "4">>

\* characters other than digits, then one or two digits
DigitsTrailing(tok) ==
    /\ SuffixLen(tok) \in {1, 2}
    /\ \A k \in 1..Len(WordPart(tok)) : WordPart(tok)[k] \notin DecimalDigits

\* letters, then one or two digits
LettersThenDigits(tok) ==
    /\ SuffixLen(tok) \in {1, 2}
    /\ \A k \in 1..Len(WordPart(tok)) : WordPart(tok)[k] \in Letters

\* the unique prefixes of the dictionary's words
UniquePrefixes == {SubSeq(DICTIONARY[k], 1, DICTIONARY_UNIQUE_PREFIX) : k \in 0..(DICTIONARY_LEN - 1)}

\* the dictionary has a word with the same unique prefix as w
Resolves(w) ==
    /\ Len(w) >= DICTIONARY_UNIQUE_PREFIX
    /\ SubSeq(w, 1, DICTIONARY_UNIQUE_PREFIX) \in UniquePrefixes

IndexOf(w) ==
    CHOOSE k \in 0..(DICTIONARY_LEN - 1) :
        \A c \in 1..DICTIONARY_UNIQUE_PREFIX : DICTIONARY[k][c] = w[c]

\* the words of the dictionary
DictionaryWords == {DICTIONARY[k] : k \in 0..(DICTIONARY_LEN - 1)}

\* the tokens of a phrase
TokensOf(p) == IF p = <<>> THEN <<>> ELSE Split(p)

\* the word part of every token cut to the unique-prefix length
TruncatedToken(tok) ==
    (IF Len(WordPart(tok)) > DICTIONARY_UNIQUE_PREFIX
     THEN SubSeq(WordPart(tok), 1, DICTIONARY_UNIQUE_PREFIX)
     ELSE WordPart(tok)) \o SuffixPart(tok)

TruncatedPhrase(p) ==
    Join([k \in 1..Len(TokensOf(p)) |-> TruncatedToken(TokensOf(p)[k])])

\* a full dictionary word followed by a number in [0,64] written without padding
CanonicalToken(tok) ==
    /\ WordPart(tok) \in DictionaryWords
    /\ SuffixLen(tok) \in {1, 2}
    /\ SuffixLen(tok) = 2 => SuffixPart(tok)[1] # "0"
    /\ Denotes(SuffixPart(tok)) <= 64

CanonicalPhrase(p) == \A k \in 1..Len(TokensOf(p)) : CanonicalToken(TokensOf(p)[k])

\* the values phrase_to_binary returns as Err
ErrorValues ==
    {"MisplacedTerminal", "SuffixNotTrailing", "SuffixTooLong", "MissingSuffix",
     "WordNotFound", "TerminalWordOutOfRange", "SuffixOutOfRange"}

\* the loop is about to examine a token
AtToken == pc = "for_word" /\ words # <<>>

\* the loop is about to examine a token and no terminal token came before it
AtFreshToken == AtToken /\ ~finalized

(***************************************************************************)
(* Properties.                                                             *)
(***************************************************************************)

\* C1 - round trip: when the phrase binary_to_phrase made of the bytes `data`
\* has gone through phrase_to_binary, the call has returned Ok with exactly
\* the bytes of `data`, in the same order.
RoundTrip ==
    (caller = "check_seed_phrases" /\ pc = "done")
        => (outcome = "Ok" /\ result = data)

RoundTripWitness ==
    /\ caller = "check_seed_phrases"
    /\ pc = "done"
    /\ Len(data) >= 3
    /\ Len(data) % 2 = 1
    /\ \E k \in 1..Len(data) : data[k] = 255
    /\ result = data

\* C2 - phrase shape: the phrase binary_to_phrase returns for n bytes has
\* ceil(n/2) non-empty tokens separated by single spaces; every token but the
\* last carries a number in [0,63] as its suffix, and the last token has the
\* suffix 64 exactly when n is odd.
PhraseShape ==
    (caller = "check_seed_phrases" /\ pc # "binary_to_phrase") =>
        LET toks == TokensOf(phrase)
            n == Len(data)
        IN  /\ Len(toks) = (n + 1) \div 2
            /\ \A k \in 1..Len(toks) :
                  /\ toks[k] # <<>>
                  /\ SuffixLen(toks[k]) >= 1
            /\ \A k \in 1..(Len(toks) - 1) : Denotes(SuffixPart(toks[k])) \in 0..63
            /\ Len(toks) > 0 => (SuffixPart(toks[Len(toks)]) = Sixty4 <=> n % 2 = 1)

PhraseShapeWitness ==
    /\ caller = "check_seed_phrases"
    /\ pc = "phrase_to_binary"
    /\ Len(data) >= 3
    /\ Len(data) % 2 = 1
    /\ Len(TokensOf(phrase)) = (Len(data) + 1) \div 2
    /\ SuffixPart(TokensOf(phrase)[1]) = <<"6", "3">>

\* C3 - prefix tolerance: when phrase_to_binary has accepted a phrase, the
\* phrase whose words are cut to the unique-prefix length, suffixes kept, is
\* accepted too and gives the same bytes.
PrefixTolerance ==
    (pc = "done" /\ outcome = "Ok") =>
        phrase_to_binary(TruncatedPhrase(phrase), overflow_checks)
            = [status |-> "Ok", result |-> result]

PrefixToleranceWitness ==
    /\ pc = "done"
    /\ outcome = "Ok"
    /\ Len(result) >= 3
    /\ TruncatedPhrase(phrase) # phrase

\* C4 - short words fail instead of panicking: a call on a phrase that has a
\* token whose word part is shorter than the unique-prefix length ends with an
\* error value, never with an abort and never with Ok.
ShortWordsFail ==
    (pc = "done" /\ \E k \in 1..Len(TokensOf(phrase)) :
                        Len(WordPart(TokensOf(phrase)[k])) < DICTIONARY_UNIQUE_PREFIX)
        => outcome \in ErrorValues

\* C5 - misplaced terminal: a token ending in 64 that the loop gets past
\* leaves finalized true; with finalized true any further token ends the call
\* with MisplacedTerminal; and no accepted phrase has a token ending in 64
\* before its last token.
MisplacedTerminal ==
    /\ [][(AtToken /\ SuffixPart(Head(words)) = Sixty4 /\ pc' = "for_word")
            => finalized']_vars
    /\ [][(AtToken /\ finalized) => (pc' = "done" /\ outcome' = "MisplacedTerminal")]_vars
    /\ []((pc = "done" /\ outcome = "Ok") =>
            \A k \in 1..(Len(TokensOf(phrase)) - 1) :
                SuffixPart(TokensOf(phrase)[k]) # Sixty4)

MisplacedTerminalWitness ==
    /\ pc = "done"
    /\ outcome = "MisplacedTerminal"
    /\ finalized
    /\ Len(result) = 0
    /\ Len(TokensOf(phrase)) >= 2
    /\ SuffixPart(TokensOf(phrase)[Len(TokensOf(phrase)) - 1]) = Sixty4

\* C6 - terminal word range: when the loop examines a token made of a word
\* the dictionary resolves and the suffix 64 (no token ending in 64 came
\* before it), the call fails with TerminalWordOutOfRange if the word's index
\* exceeds 255, and otherwise the loop appends exactly one byte, the index.
TerminalWordRange ==
    [][(/\ AtFreshToken
        /\ DigitsTrailing(Head(words))
        /\ SuffixPart(Head(words)) = Sixty4
        /\ Resolves(WordPart(Head(words))))
       => IF IndexOf(WordPart(Head(words))) > 255
          THEN pc' = "done" /\ outcome' = "TerminalWordOutOfRange"
          ELSE /\ pc' = "for_word"
               /\ result' = Append(result, IndexOf(WordPart(Head(words))))]_vars

TerminalWordRangeWitness ==
    /\ pc = "done"
    /\ outcome = "TerminalWordOutOfRange"
    /\ words # <<>>
    /\ WordPart(Head(words)) = DICTIONARY[256]

\* C7 as stated - suffix range: every token not ending in 64 whose suffix
\* denotes more than 64 ends the call with SuffixOutOfRange (shown on the
\* tokens whose word has at least the unique-prefix length).
SuffixRangeEveryToken ==
    [][(/\ AtFreshToken
        /\ DigitsTrailing(Head(words))
        /\ SuffixPart(Head(words)) # Sixty4
        /\ Denotes(SuffixPart(Head(words))) > 64
        /\ Len(WordPart(Head(words))) >= DICTIONARY_UNIQUE_PREFIX)
       => (pc' = "done" /\ outcome' = "SuffixOutOfRange")]_vars

\* C7 as amended - suffix range: every token the loop examines that does not
\* end in 64, whose word the dictionary resolves and whose suffix denotes more
\* than 64 ends the call with SuffixOutOfRange; and every token the loop takes
\* as a two-byte token has a suffix in [0,63].
SuffixRange ==
    /\ [][(/\ AtFreshToken
           /\ DigitsTrailing(Head(words))
           /\ SuffixPart(Head(words)) # Sixty4
           /\ Denotes(SuffixPart(Head(words))) > 64
           /\ Resolves(WordPart(Head(words))))
          => (pc' = "done" /\ outcome' = "SuffixOutOfRange")]_vars
    /\ [][(AtToken /\ pc' = "for_word" /\ Len(result') = Len(result) + 2)
          => Denotes(SuffixPart(Head(words))) \in 0..63]_vars

SuffixRangeWitness ==
    /\ pc = "done"
    /\ outcome = "SuffixOutOfRange"
    /\ words # <<>>
    /\ SuffixPart(Head(words)) = <<"6", "5">>

\* C8 as stated - unique representation: a phrase that phrase_to_binary
\* accepts with the bytes b is binary_to_phrase(b), and the phrase made by
\* binary_to_phrase is accepted.
UniqueRepresentation ==
    /\ (pc = "done" /\ caller = "check_seed_phrases") => outcome = "Ok"
    /\ (pc = "done" /\ outcome = "Ok") => phrase = binary_to_phrase(result)

\* C8 as amended - the phrase binary_to_phrase returns is made of full
\* dictionary words, each followed by a number without padding, its indices
\* are all within the dictionary, and it is the only phrase of this form that
\* phrase_to_binary accepts with these bytes.
UniqueCanonicalRepresentation ==
    /\ (pc = "binary_to_phrase" /\ i + 1 < Len(data))
          => WordIndex(data[i + 1], data[i + 2]) \in DOMAIN DICTIONARY
    /\ (caller = "check_seed_phrases" /\ pc # "binary_to_phrase")
          => (CanonicalPhrase(phrase) /\ phrase = binary_to_phrase(data))
    /\ (pc = "done" /\ outcome = "Ok" /\ CanonicalPhrase(phrase))
          => phrase = binary_to_phrase(result)

UniqueCanonicalRepresentationWitness ==
    /\ caller = "check_bad_phrases"
    /\ pc = "done"
    /\ outcome = "Ok"
    /\ CanonicalPhrase(phrase)
    /\ Len(result) >= 3

\* C9 as stated - token structure: the loop gets past a token only if the
\* token is letters followed by one or two digits; a token with a digit
\* before a non-digit, with more than two digits or with no digit ends the
\* call with an error value, raised before the dictionary is consulted.
TokenStructureLetters ==
    /\ [][(AtToken /\ pc' = "for_word") => LettersThenDigits(Head(words))]_vars
    /\ [][(AtFreshToken /\ ~DigitsTrailing(Head(words)))
          => (/\ pc' = "done"
              /\ outcome' \in {"SuffixNotTrailing", "SuffixTooLong", "MissingSuffix"})]_vars

\* C9 as amended - token structure: the loop gets past a token only if the
\* token is characters other than digits followed by one or two digits; a
\* token the loop examines with a digit before a non-digit, with more than two
\* digits or with no digit ends the call with the error of that defect,
\* whether or not its word is long enough or in the dictionary.
TokenStructure ==
    /\ [][(AtToken /\ pc' = "for_word") => DigitsTrailing(Head(words))]_vars
    /\ [][(AtFreshToken /\ ~DigitsTrailing(Head(words)))
          => (/\ pc' = "done"
              /\ outcome' \in {"SuffixNotTrailing", "SuffixTooLong", "MissingSuffix"}
              /\ (\A k \in 1..Len(Head(words)) : Head(words)[k] \notin DecimalDigits)
                    => outcome' = "MissingSuffix")]_vars

TokenStructureWitness ==
    /\ pc = "done"
    /\ outcome = "SuffixTooLong"
    /\ words # <<>>
    /\ Resolves(WordPart(Head(words)))
    /\ SuffixLen(Head(words)) = 3

\* C10 - no 16-bit overflow: on a token that reaches the two-byte branch (well
\* formed, not ending in 64) and whose word the dictionary resolves, index*64 fits 16 bits and the call does not
\* abort; if the loop goes on, index*64+suffix fits 16 bits, the two bytes
\* appended are (value div 256, value mod 256) of that value, and value div 64
\* is the index.
NoOverflow ==
    [][(/\ AtFreshToken
        /\ DigitsTrailing(Head(words))
        /\ SuffixPart(Head(words)) # Sixty4
        /\ Resolves(WordPart(Head(words))))
       => LET word_index == IndexOf(WordPart(Head(words)))
              value == word_index * 64 + Denotes(SuffixPart(Head(words)))
          IN  /\ word_index * 64 <= 65535
              /\ outcome' # "panic"
              /\ pc' = "for_word" =>
                    /\ value <= 65535
                    /\ result' = result \o <<value \div 256, value % 256>>
                    /\ value \div 64 = word_index]_vars

NoOverflowWitness ==
    /\ caller = "check_bad_phrases"
    /\ outcome = "Ok"
    /\ Len(result) >= 2
    /\ result[Len(result) - 1] = 255
    /\ result[Len(result)] = 255

====
